---- MODULE Spec2Model ----
(***************************************************************************)
(* pelicanconf.py: the settings module of a Pelican site.                  *)
(*                                                                         *)
(* The module is a straight line of fourteen statements: one __future__    *)
(* import and thirteen assignments of literals to module globals.  The     *)
(* model executes those statements one at a time into a module namespace,  *)
(* lets the file be executed again into the same namespace (a reload) and  *)
(* into an independent second namespace (a second copy of the system), and *)
(* lets the consuming engine read the upper-case globals once a load has   *)
(* finished.                                                               *)
(*                                                                         *)
(* Python values are records tagged with their type.  A string is the      *)
(* sequence of its characters, so that emptiness and the first character   *)
(* of a path are things a formula can look at.                             *)
(***************************************************************************)
EXTENDS Naturals, Sequences, FiniteSets, TLC

\* How many times one namespace may have the file executed into it.
MaxLoads == 2

\* The two systems that load the file independently of each other.
Copies == {1, 2}

(***************************************************************************)
(* Python literals                                                         *)
(***************************************************************************)
Str(chars) == [type |-> "str", chars |-> chars]

Int(n) == [type |-> "int", n |-> n]

Bool(b) == [type |-> "bool", b |-> b]

None == [type |-> "NoneType"]

Tuple(items) == [type |-> "tuple", items |-> items]

(***************************************************************************)
(* The right-hand sides of the assignments, under the names they are       *)
(* assigned to.                                                            *)
(***************************************************************************)
AUTHOR ==
    Str(<<"D", "a", "n", "i", "e", "l", " ", "H", "o", "c", "h", "m", "a", "n">>)

\* SITENAME = u'' : a site without a title.
SITENAME_Empty == Str(<<>>)

SITENAME ==
    Str(<<"/", "v", "a", "r", "/", "l", "o", "g", "/", "d", "a", "n", "i", "e",
          "l", "h", "o", "c", "h", "m", "a", "n">>)

SITEURL ==
    Str(<<"h", "t", "t", "p", ":", "/", "/", "l", "o", "c", "a", "l", "h", "o",
          "s", "t", ":", "8", "0", "0", "0">>)

TIMEZONE ==
    Str(<<"A", "m", "e", "r", "i", "c", "a", "/", "L", "o", "s", "_", "A", "n",
          "g", "e", "l", "e", "s">>)

DEFAULT_LANG == Str(<<"e", "n">>)

\* FEED_ALL_ATOM = 'feeds/all.atom.xml' : the production setting left in.
FEED_ALL_ATOM_Set ==
    Str(<<"f", "e", "e", "d", "s", "/", "a", "l", "l", ".", "a", "t", "o", "m",
          ".", "x", "m", "l">>)

FEED_ALL_ATOM == None

CATEGORY_FEED_ATOM == None

TRANSLATION_FEED_ATOM == None

\* DEFAULT_PAGINATION = 0
DEFAULT_PAGINATION_Zero == Int(0)

DEFAULT_PAGINATION == Int(1)

\* MENUITEMS = (('Archives', '/archives.html')) : the trailing comma dropped,
\* which Python reads as the inner pair itself.
MENUITEMS_NoComma ==
    Tuple(<<Str(<<"A", "r", "c", "h", "i", "v", "e", "s">>),
            Str(<<"/", "a", "r", "c", "h", "i", "v", "e", "s", ".", "h", "t",
                  "m", "l">>)>>)

\* MENUITEMS with a second entry, ('Blog', '/index.html'), ahead of the archive link.
MENUITEMS_WithBlog ==
    Tuple(<<Tuple(<<Str(<<"B", "l", "o", "g">>),
                    Str(<<"/", "i", "n", "d", "e", "x", ".", "h", "t", "m",
                          "l">>)>>),
            Tuple(<<Str(<<"A", "r", "c", "h", "i", "v", "e", "s">>),
                    Str(<<"/", "a", "r", "c", "h", "i", "v", "e", "s", ".",
                          "h", "t", "m", "l">>)>>)>>)

MENUITEMS ==
    Tuple(<<Tuple(<<Str(<<"A", "r", "c", "h", "i", "v", "e", "s">>),
                    Str(<<"/", "a", "r", "c", "h", "i", "v", "e", "s", ".",
                          "h", "t", "m", "l">>)>>)>>)

DISPLAY_PAGES_ON_MENU == Bool(TRUE)

\* FILES_TO_COPY = (('/extra/favicon.ico', 'favicon.ico'),) : an absolute source.
FILES_TO_COPY_Absolute ==
    Tuple(<<Tuple(<<Str(<<"/", "e", "x", "t", "r", "a", "/", "f", "a", "v",
                          "i", "c", "o", "n", ".", "i", "c", "o">>),
                    Str(<<"f", "a", "v", "i", "c", "o", "n", ".", "i", "c",
                          "o">>)>>)>>)

FILES_TO_COPY ==
    Tuple(<<Tuple(<<Str(<<"e", "x", "t", "r", "a", "/", "f", "a", "v", "i",
                          "c", "o", "n", ".", "i", "c", "o">>),
                    Str(<<"f", "a", "v", "i", "c", "o", "n", ".", "i", "c",
                          "o">>)>>)>>)

THEME ==
    Str(<<"t", "h", "e", "m", "e", "s", "/", "p", "e", "l", "i", "c", "a", "n",
          "-", "f", "o", "u", "n", "d", "a", "t", "i", "o", "n", "-", "m", "o",
          "d">>)

(***************************************************************************)
(* The statements of the module, in source order.                          *)
(***************************************************************************)
Import(name) ==
    [kind |-> "import", name |-> name,
     value |-> [type |-> "_Feature", feature |-> name]]

Assign(name, value) == [kind |-> "assign", name |-> name, value |-> value]

Program ==
    << Import("unicode_literals"),
       Assign("AUTHOR", AUTHOR),
       Assign("SITENAME", SITENAME),
       Assign("SITEURL", SITEURL),
       Assign("TIMEZONE", TIMEZONE),
       Assign("DEFAULT_LANG", DEFAULT_LANG),
       Assign("FEED_ALL_ATOM", FEED_ALL_ATOM),
       Assign("CATEGORY_FEED_ATOM", CATEGORY_FEED_ATOM),
       Assign("TRANSLATION_FEED_ATOM", TRANSLATION_FEED_ATOM),
       Assign("DEFAULT_PAGINATION", DEFAULT_PAGINATION),
       Assign("MENUITEMS", MENUITEMS),
       Assign("DISPLAY_PAGES_ON_MENU", DISPLAY_PAGES_ON_MENU),
       Assign("FILES_TO_COPY", FILES_TO_COPY),
       Assign("THEME", THEME) >>

\* The settings: the upper-case globals the module defines.
Fields == { Program[i].name : i \in { j \in 1..Len(Program) : Program[j].kind = "assign" } }

FeedFlags == {"FEED_ALL_ATOM", "CATEGORY_FEED_ATOM", "TRANSLATION_FEED_ATOM"}

(***************************************************************************)
(* Executing one statement                                                 *)
(***************************************************************************)
\* DEFAULT_PAGINATION = globals().get('DEFAULT_PAGINATION', 0) + 1 : a value
\* computed from what an earlier execution left in the namespace.
EvalFromNamespace(stmt, n) ==
    IF stmt.name = "DEFAULT_PAGINATION" /\ stmt.name \in DOMAIN n
    THEN Int(n[stmt.name].n + 1)
    ELSE stmt.value

\* Every right-hand side is a literal: its value depends on nothing.
Eval(stmt, n) == stmt.value

\* assert os.path.isdir(THEME) : the module checking its own value.
RaisesOnMissingTheme(stmt, e) == stmt.name = "THEME" /\ ~e.themeExists

\* No statement calls, indexes, asserts or refers to a name: none can raise.
Raises(stmt, e) == FALSE

Bind(n, name, value) == (name :> value) @@ n

(***************************************************************************)
(* Reading a setting                                                       *)
(***************************************************************************)
\* A module-level __getattr__ that resolves THEME on first access and caches
\* the result in the namespace.
ReadResolvesTheme(n, f) ==
    IF f = "THEME"
    THEN Bind(n, f, Str(<<"p", "e", "l", "i", "c", "a", "n", "-", "f", "o", "u",
                          "n", "d", "a", "t", "i", "o", "n">>))
    ELSE n

\* The settings are plain module globals: reading one runs no code of the
\* module and leaves the namespace as it is.
ReadEffect(n, f) == n

\* What the engine rejects when it uses a setting: a theme that is not
\* installed, a copy source that does not exist.
Invalid(f, e) ==
    \/ f = "THEME" /\ ~e.themeExists
    \/ f = "FILES_TO_COPY" /\ ~e.sourceExists

\* A feed is generated only for a flag that is a string.
FeedEnabled(v) == v.type = "str"

(***************************************************************************)
(* State                                                                   *)
(***************************************************************************)
VARIABLES
    env,       \* env[c]: the file system copy c builds in
    status,    \* status[c]: "unloaded", "loading", "loaded" or "failed"
    pc,        \* pc[c]: the statement copy c executes next
    ns,        \* ns[c]: the module namespace, a function from bound names to values
    loads,     \* loads[c]: how many executions of the file have finished
    lastRead,  \* lastRead[c]: the setting the engine read last, and what it got
    error      \* error[c]: "none", or "engine" once the engine rejected a setting

vars == <<env, status, pc, ns, loads, lastRead, error>>

Environments == [themeExists : BOOLEAN, sourceExists : BOOLEAN]

NoRead == [field |-> "none"]

EmptyNamespace == <<>>

Loaded(c) == status[c] = "loaded"

Init ==
    /\ env \in [Copies -> Environments]
    /\ status = [c \in Copies |-> "unloaded"]
    /\ pc = [c \in Copies |-> 1]
    /\ ns = [c \in Copies |-> EmptyNamespace]
    /\ loads = [c \in Copies |-> 0]
    /\ lastRead = [c \in Copies |-> NoRead]
    /\ error = [c \in Copies |-> "none"]

\* The engine starts executing the file: the first time into an empty
\* namespace, later into the namespace the previous execution left.  What it
\* read from the previous configuration is dropped.
StartLoad(c) ==
    /\ status[c] \in {"unloaded", "loaded"}
    /\ error[c] = "none"
    /\ loads[c] < MaxLoads
    /\ status' = [status EXCEPT ![c] = "loading"]
    /\ pc' = [pc EXCEPT ![c] = 1]
    /\ lastRead' = [lastRead EXCEPT ![c] = NoRead]
    /\ UNCHANGED <<env, ns, loads, error>>

\* The next statement of the file: evaluate the right-hand side and bind the
\* name; after the last statement the load has finished.
Exec(c) ==
    /\ status[c] = "loading"
    /\ pc[c] <= Len(Program)
    /\ LET stmt == Program[pc[c]]
       IN  IF Raises(stmt, env[c])
           THEN /\ status' = [status EXCEPT ![c] = "failed"]
                /\ UNCHANGED <<pc, ns, loads>>
           ELSE /\ ns' = [ns EXCEPT ![c] = Bind(ns[c], stmt.name, Eval(stmt, ns[c]))]
                /\ pc' = [pc EXCEPT ![c] = pc[c] + 1]
                /\ IF pc[c] = Len(Program)
                   THEN /\ status' = [status EXCEPT ![c] = "loaded"]
                        /\ loads' = [loads EXCEPT ![c] = loads[c] + 1]
                   ELSE UNCHANGED <<status, loads>>
    /\ UNCHANGED <<env, lastRead, error>>

\* The engine reads setting f of a loaded configuration and uses it.
Read(c, f) ==
    /\ Loaded(c)
    /\ error[c] = "none"
    /\ lastRead' = [lastRead EXCEPT ![c] = [field |-> f, value |-> ns[c][f]]]
    /\ ns' = [ns EXCEPT ![c] = ReadEffect(ns[c], f)]
    /\ error' = [error EXCEPT ![c] = IF Invalid(f, env[c]) THEN "engine" ELSE "none"]
    /\ UNCHANGED <<env, status, pc, loads>>

Next ==
    \/ \E c \in Copies : StartLoad(c)
    \/ \E c \in Copies : Exec(c)
    \/ \E c \in Copies : \E f \in Fields : Read(c, f)

Spec == Init /\ [][Next]_vars

(***************************************************************************)
(* Properties                                                              *)
(***************************************************************************)
IsStr(v) == v.type = "str"

NonEmptyStr(v) == IsStr(v) /\ Len(v.chars) >= 1

IsPairOfStr(v) ==
    /\ v.type = "tuple"
    /\ Len(v.items) = 2
    /\ IsStr(v.items[1])
    /\ IsStr(v.items[2])

RelativePath(v) == NonEmptyStr(v) /\ v.chars[1] # "/"

\* C1: the record is immutable after load.  A step that starts and ends with
\* copy c loaded (a read of any setting by the engine, or a step of the other
\* copy) leaves every binding of c's namespace exactly as it was, and all
\* thirteen settings stay bound.
C1_ImmutableAfterLoad ==
    [][\A c \in Copies :
          Loaded(c) /\ Loaded(c)' =>
              /\ ns'[c] = ns[c]
              /\ Fields \subseteq DOMAIN ns'[c]]_vars

\* The engine has read a setting of a loaded configuration and got its value.
C1_Witness ==
    \E c \in Copies :
        /\ Loaded(c)
        /\ lastRead[c].field = "MENUITEMS"
        /\ lastRead[c].value = ns[c]["MENUITEMS"]

\* C2: loading is deterministic and idempotent.  Two loaded copies hold the
\* same value for every name, whatever their environments; and once a
\* namespace has been loaded, no later step, the statements of a second
\* execution of the file included, changes any value in it.
C2_LoadDeterministicIdempotent ==
    [][/\ \A c, d \in Copies : Loaded(c)' /\ Loaded(d)' => ns'[c] = ns'[d]
       /\ \A c \in Copies : loads[c] >= 1 => ns'[c] = ns[c]]_vars

\* Copy 1 has been loaded twice in sequence and copy 2, in another
\* environment, once.
C2_Witness ==
    /\ loads[1] = 2
    /\ loads[2] = 1
    /\ Loaded(1)
    /\ Loaded(2)
    /\ env[1] # env[2]

\* C3: after load, site_name is "/var/log/danielhochman", default_pagination
\* is 1 and menu_items is the one-element sequence
\* <<("Archives", "/archives.html")>>.
C3_ExampleValues ==
    \A c \in Copies :
        Loaded(c) =>
            /\ ns[c]["SITENAME"] =
                   Str(<<"/", "v", "a", "r", "/", "l", "o", "g", "/", "d", "a",
                         "n", "i", "e", "l", "h", "o", "c", "h", "m", "a", "n">>)
            /\ ns[c]["DEFAULT_PAGINATION"] = Int(1)
            /\ ns[c]["MENUITEMS"].type = "tuple"
            /\ Len(ns[c]["MENUITEMS"].items) = 1
            /\ ns[c]["MENUITEMS"].items[1] =
                   Tuple(<<Str(<<"A", "r", "c", "h", "i", "v", "e", "s">>),
                           Str(<<"/", "a", "r", "c", "h", "i", "v", "e", "s",
                                 ".", "h", "t", "m", "l">>)>>)

\* A loaded configuration whose site name the engine has read.
C3_Witness ==
    \E c \in Copies :
        /\ Loaded(c)
        /\ lastRead[c].field = "SITENAME"
        /\ Len(lastRead[c].value.chars) = 22

\* C4: menu_items is a sequence in which every element is a pair of exactly
\* two components (label, path), and it is not itself a bare pair of strings.
C4_MenuItemsArePairs ==
    \A c \in Copies :
        Loaded(c) =>
            LET m == ns[c]["MENUITEMS"]
            IN  /\ m.type = "tuple"
                /\ \A i \in 1..Len(m.items) : IsPairOfStr(m.items[i])
                /\ ~IsPairOfStr(m)

\* A loaded configuration with a menu entry in it.
C4_Witness ==
    \E c \in Copies :
        /\ Loaded(c)
        /\ Len(ns[c]["MENUITEMS"].items) >= 1
        /\ Len(ns[c]["MENUITEMS"].items[1].items) = 2

\* C5: default_pagination is a positive integer in every state after load.
C5_PaginationPositive ==
    \A c \in Copies :
        Loaded(c) =>
            /\ ns[c]["DEFAULT_PAGINATION"].type = "int"
            /\ ns[c]["DEFAULT_PAGINATION"].n >= 1

\* The engine has read the page size of a loaded configuration.
C5_Witness ==
    \E c \in Copies :
        /\ Loaded(c)
        /\ lastRead[c].field = "DEFAULT_PAGINATION"
        /\ lastRead[c].value.type = "int"

\* C6: author and site_name are non-empty strings in every state after load.
C6_RequiredStringsNonEmpty ==
    \A c \in Copies :
        Loaded(c) =>
            /\ NonEmptyStr(ns[c]["AUTHOR"])
            /\ NonEmptyStr(ns[c]["SITENAME"])

\* The engine has read the author of a loaded configuration.
C6_Witness ==
    \E c \in Copies :
        /\ Loaded(c)
        /\ lastRead[c].field = "AUTHOR"
        /\ IsStr(lastRead[c].value)

\* C7: every element of files_to_copy is a (source, destination) pair whose
\* components are both relative paths: non-empty, not starting with "/".
C7_CopyPathsRelative ==
    \A c \in Copies :
        Loaded(c) =>
            LET fs == ns[c]["FILES_TO_COPY"]
            IN  /\ fs.type = "tuple"
                /\ \A i \in 1..Len(fs.items) :
                       /\ IsPairOfStr(fs.items[i])
                       /\ RelativePath(fs.items[i].items[1])
                       /\ RelativePath(fs.items[i].items[2])

\* A loaded configuration with a copy rule whose source has a first character.
C7_Witness ==
    \E c \in Copies :
        /\ Loaded(c)
        /\ Len(ns[c]["FILES_TO_COPY"].items) >= 1
        /\ Len(ns[c]["FILES_TO_COPY"].items[1].items[1].chars) >= 1

\* C8: the configuration validates nothing and has no error outcome.  In every
\* environment no load ever fails and a load under way can always execute its
\* next statement; an error exists only once the engine has used a setting of
\* a loaded configuration that its environment makes invalid.
C8_NoLoadError ==
    \A c \in Copies :
        /\ status[c] # "failed"
        /\ status[c] = "loading" => ENABLED Exec(c)
        /\ error[c] # "none" =>
               /\ Loaded(c)
               /\ lastRead[c].field \in Fields
               /\ Invalid(lastRead[c].field, env[c])

\* With neither the theme nor the copy source present the file has been loaded
\* twice, and the engine then failed on using the theme.
C8_Witness ==
    \E c \in Copies :
        /\ ~env[c].themeExists
        /\ ~env[c].sourceExists
        /\ loads[c] = 2
        /\ Loaded(c)
        /\ error[c] = "engine"
        /\ lastRead[c].field = "THEME"

\* C9: all three feed flags are None after load, so no kind of Atom feed is
\* enabled for a build that uses this configuration.
C9_FeedsDisabled ==
    \A c \in Copies :
        Loaded(c) =>
            \A f \in FeedFlags :
                /\ ns[c][f] = None
                /\ ~FeedEnabled(ns[c][f])

\* The engine has read a feed flag of a loaded configuration and got None.
C9_Witness ==
    \E c \in Copies :
        /\ Loaded(c)
        /\ lastRead[c].field \in FeedFlags
        /\ lastRead[c].value.type = "NoneType"

====
